---- MODULE Spec2Model ----
(***************************************************************************)
(* Model of src/python/lib/makeRunScript.py (strelka): the run-script      *)
(* generator makeRunScript and the two templates it emits, the run-option  *)
(* resolver get_run_options (runScript2) and the run controller main       *)
(* (runScript3).                                                           *)
(*                                                                         *)
(* Three specifications share the module:                                  *)
(*   Spec          the generated driver, invoked repeatedly and never      *)
(*                 overlapping, against one run directory;                 *)
(*   SpecResolver  get_run_options applied to every command line and       *)
(*                 estimator outcome of the bounded input sets;            *)
(*   SpecGen       makeRunScript, step by step, on a small filesystem.     *)
(***************************************************************************)
EXTENDS Integers, Sequences, FiniteSets, TLC

(***************************************************************************)
(* Bounds.                                                                 *)
(***************************************************************************)
\* number of driver invocations in one behaviour
MaxRuns == 3
\* the engine returns an exit code in 0..MaxRet
MaxRet == 2

(***************************************************************************)
(* Python values: None, a string (sequence of characters) or an integer.   *)
(***************************************************************************)
None == [t |-> "None", s |-> <<>>, n |-> 0]
Str(x) == [t |-> "str", s |-> x, n |-> 0]
Int_(k) == [t |-> "int", s |-> <<>>, n |-> k]

IsNone(v) == v.t = "None"
PyEq(a, b) == a.t = b.t /\ a.s = b.s /\ a.n = b.n

unlimited == Str(<<"u", "n", "l", "i", "m", "i", "t", "e", "d">>)

Digits == <<"0", "1", "2", "3", "4", "5", "6", "7", "8", "9">>
DigitSet == {Digits[i] : i \in 1..10}
DigitVal(c) == (CHOOSE i \in 1..10 : Digits[i] = c) - 1
Whitespace == {" ", "\n", "\t"}

RECURSIVE lstrip(_)
lstrip(s) == IF s # <<>> /\ Head(s) \in Whitespace THEN lstrip(Tail(s)) ELSE s

RECURSIVE rstrip(_)
rstrip(s) ==
    IF s # <<>> /\ s[Len(s)] \in Whitespace
    THEN rstrip(SubSeq(s, 1, Len(s) - 1)) ELSE s

strip(s) == rstrip(lstrip(s))

RECURSIVE DigitsValue(_, _)
DigitsValue(s, acc) ==
    IF s = <<>> THEN acc ELSE DigitsValue(Tail(s), 10 * acc + DigitVal(Head(s)))

\* int(x) of Python 2 on a string: surrounding whitespace is ignored, one
\* optional sign, then at least one decimal digit; anything else raises
\* ValueError.
ParseInt(str) ==
    LET s == strip(str)
        signed == s # <<>> /\ Head(s) \in {"-", "+"}
        body == IF signed THEN Tail(s) ELSE s
    IN  IF body = <<>> \/ \E i \in 1..Len(body) : body[i] \notin DigitSet
        THEN [ok |-> FALSE, v |-> 0]
        ELSE [ok |-> TRUE,
              v |-> IF signed /\ Head(s) = "-"
                    THEN 0 - DigitsValue(body, 0) ELSE DigitsValue(body, 0)]

\* int(x) on a Python value: the identity on an integer, the parse of a string
py_int(v) == IF v.t = "int" THEN [ok |-> TRUE, v |-> v.n] ELSE ParseInt(v.s)

RECURSIVE NatToStr(_)
NatToStr(k) ==
    IF k < 10 THEN <<Digits[k + 1]>>
    ELSE NatToStr(k \div 10) \o <<Digits[(k % 10) + 1]>>

\* "%i\n" % (retval)
FormatExitCode(k) ==
    (IF k < 0 THEN <<"-">> \o NatToStr(0 - k) ELSE NatToStr(k)) \o <<"\n">>

(***************************************************************************)
(* runScript2: get_run_options.                                            *)
(*                                                                         *)
(* cmd is what parser.parse_args() returns for the command line: nargs     *)
(* positional arguments and the option values (None when not given).  env  *)
(* is what the collaborators answer: the workflow class's default core     *)
(* count for sge, the two hardware estimates (ok = FALSE: EstException)    *)
(* and whether a local mail relay answers.                                 *)
(***************************************************************************)
local == Str(<<"local">>)
sge == Str(<<"sge">>)

\* sys.exit(status)
SysExit(status) ==
    [kind |-> "exit", status |-> status, options |-> None, exc |-> "SystemExit"]
\* an exception that nothing in the script catches
Raise(exc) == [kind |-> "raise", status |-> 1, options |-> None, exc |-> exc]
Return(options) ==
    [kind |-> "options", status |-> 0, options |-> options, exc |-> ""]

\* parser.print_help(); sys.exit(2)
print_help_exit == SysExit(2)
\* OptionParser.error(msg): prints usage and msg, then exits with status 2
parser_error == SysExit(2)

\* lines 174-185: the resolved job count, or the way the resolver stops
resolveJobs(cmd, env) ==
    LET jobs0 == IF IsNone(cmd.jobs)
                 THEN IF PyEq(cmd.mode, sge)
                      THEN [ok |-> TRUE, v |-> Int_(env.sgeDefaultCores)]
                      ELSE IF env.cores.ok
                           THEN [ok |-> TRUE, v |-> Int_(env.cores.v)]
                           ELSE [ok |-> FALSE, v |-> None]
                 ELSE [ok |-> TRUE, v |-> cmd.jobs]
    IN  IF ~jobs0.ok THEN [stop |-> TRUE, how |-> parser_error, v |-> None]
        ELSE IF ~PyEq(jobs0.v, unlimited)
        THEN LET i == py_int(jobs0.v)
             IN  IF ~i.ok
                 THEN [stop |-> TRUE, how |-> Raise("ValueError"), v |-> None]
                 ELSE IF i.v <= 0
                 THEN [stop |-> TRUE, how |-> parser_error, v |-> None]
                 ELSE [stop |-> FALSE, how |-> parser_error, v |-> Int_(i.v)]
        ELSE [stop |-> FALSE, how |-> parser_error, v |-> jobs0.v]

\* resolveMemMb passing the gigabyte figure on unconverted
resolveMemMb_noScale(cmd, env) ==
    IF IsNone(cmd.memGb)
    THEN IF PyEq(cmd.mode, sge)
         THEN [stop |-> FALSE, how |-> parser_error, v |-> unlimited]
         ELSE IF env.memMb.ok
              THEN [stop |-> FALSE, how |-> parser_error, v |-> Int_(env.memMb.v)]
              ELSE [stop |-> TRUE, how |-> parser_error, v |-> None]
    ELSE IF ~PyEq(cmd.memGb, unlimited)
    THEN LET i == py_int(cmd.memGb)
         IN  IF ~i.ok
             THEN [stop |-> TRUE, how |-> Raise("ValueError"), v |-> None]
             ELSE IF i.v <= 0
             THEN [stop |-> TRUE, how |-> parser_error, v |-> None]
             ELSE [stop |-> FALSE, how |-> parser_error, v |-> Int_(i.v)]
    ELSE [stop |-> FALSE, how |-> parser_error, v |-> cmd.memGb]

\* lines 187-202: the resolved memory budget in megabytes
resolveMemMb(cmd, env) ==
    IF IsNone(cmd.memGb)
    THEN IF PyEq(cmd.mode, sge)
         THEN [stop |-> FALSE, how |-> parser_error, v |-> unlimited]
         ELSE IF env.memMb.ok
              THEN [stop |-> FALSE, how |-> parser_error, v |-> Int_(env.memMb.v)]
              ELSE [stop |-> TRUE, how |-> parser_error, v |-> None]
    ELSE IF ~PyEq(cmd.memGb, unlimited)
    THEN LET i == py_int(cmd.memGb)
         IN  IF ~i.ok
             THEN [stop |-> TRUE, how |-> Raise("ValueError"), v |-> None]
             ELSE IF i.v <= 0
             THEN [stop |-> TRUE, how |-> parser_error, v |-> None]
             ELSE [stop |-> FALSE, how |-> parser_error, v |-> Int_(1024 * i.v)]
    ELSE [stop |-> FALSE, how |-> parser_error, v |-> cmd.memGb]

\* lines 204-208
schedulerArgListOf(cmd) ==
    (IF ~IsNone(cmd.queue) THEN <<<<"-q">>, cmd.queue.s>> ELSE <<>>)
    \o (IF ~IsNone(cmd.maxTaskRuntime)
        THEN <<<<"-l">>, <<"h_rt=">> \o cmd.maxTaskRuntime.s>> ELSE <<>>)

\* resetTasksOf ignoring --rescore
resetTasksOf_never(cmd) == <<>>

\* lines 210-212
resetTasksOf(cmd) == IF cmd.isRescore THEN <<"makeHyGenDir">> ELSE <<>>

get_run_options(cmd, env) ==
    IF cmd.nargs # 0 THEN print_help_exit
    ELSE IF IsNone(cmd.mode) THEN print_help_exit
    ELSE IF ~(PyEq(cmd.mode, local) \/ PyEq(cmd.mode, sge)) THEN parser_error
    ELSE LET j == resolveJobs(cmd, env)
         IN  IF j.stop THEN j.how
             ELSE LET m == resolveMemMb(cmd, env)
                  IN  IF m.stop THEN m.how
                      ELSE Return([mode |-> cmd.mode,
                                   jobs |-> j.v,
                                   memMb |-> m.v,
                                   mailTo |-> IF env.isEmail THEN cmd.mailTo ELSE None,
                                   isDryRun |-> cmd.isDryRun,
                                   isQuiet |-> cmd.isQuiet,
                                   schedulerArgList |-> schedulerArgListOf(cmd),
                                   resetTasks |-> resetTasksOf(cmd)])

(***************************************************************************)
(* The command lines and collaborator answers the model draws from.        *)
(***************************************************************************)
Modes == {None, local, sge, Str(<<"lsf">>)}
JobArgs == {None, unlimited, Str(<<"2">>), Str(<<"1", "2">>), Str(<<"0">>),
            Str(<<"-", "1">>), Str(<<"a", "b", "c">>)}
MemArgs == {None, unlimited, Str(<<"4">>), Str(<<"0">>), Str(<<"-", "3">>),
            Str(<<"4", "G">>)}
\* the options that get_run_options only passes on
PassThrough ==
    {[queue |-> None, maxTaskRuntime |-> None, mailTo |-> None,
      isDryRun |-> FALSE, isQuiet |-> FALSE],
     [queue |-> Str(<<"all.q">>), maxTaskRuntime |-> None,
      mailTo |-> Str(<<"a@b">>), isDryRun |-> TRUE, isQuiet |-> FALSE],
     [queue |-> Str(<<"all.q">>), maxTaskRuntime |-> Str(<<"01:00:00">>),
      mailTo |-> None, isDryRun |-> FALSE, isQuiet |-> TRUE]}

MkCmd(nargs, mode, jobs, memGb, isRescore, p) ==
    [nargs |-> nargs, mode |-> mode, jobs |-> jobs, memGb |-> memGb,
     isRescore |-> isRescore, queue |-> p.queue,
     maxTaskRuntime |-> p.maxTaskRuntime, mailTo |-> p.mailTo,
     isDryRun |-> p.isDryRun, isQuiet |-> p.isQuiet]

Cmds ==
    {MkCmd(a, m, j, g, r, p) :
        a \in {0, 1}, m \in Modes, j \in JobArgs, g \in MemArgs,
        r \in BOOLEAN, p \in PassThrough}

EstException == [ok |-> FALSE, v |-> 0]
Est(v) == [ok |-> TRUE, v |-> v]

Envs ==
    [sgeDefaultCores : {4, 128},
     cores : {EstException, Est(8), Est(2)},
     memMb : {EstException, Est(16384)},
     isEmail : BOOLEAN]

NoCmd == MkCmd(0, None, None, None, FALSE,
               [queue |-> None, maxTaskRuntime |-> None, mailTo |-> None,
                isDryRun |-> FALSE, isQuiet |-> FALSE])
NoEnv == [sgeDefaultCores |-> 0, cores |-> EstException, memMb |-> EstException,
          isEmail |-> FALSE]
NoResult == [kind |-> "none", status |-> 0, options |-> None, exc |-> ""]

NoOptions ==
    [mode |-> None, jobs |-> None, memMb |-> None, mailTo |-> None,
     isDryRun |-> FALSE, isQuiet |-> FALSE, schedulerArgList |-> <<>>,
     resetTasks |-> <<>>]

\* the command lines and answers the driver is started with
DriverCmds ==
    {MkCmd(a, m, j, g, r, p) :
        a \in {0, 1}, m \in {None, local, sge, Str(<<"lsf">>)},
        j \in {None, Str(<<"2">>), Str(<<"a", "b", "c">>)},
        g \in {None, Str(<<"4">>)},
        r \in BOOLEAN,
        p \in {q \in PassThrough : IsNone(q.maxTaskRuntime)}}
DriverEnvs ==
    [sgeDefaultCores : {4}, cores : {EstException, Est(8)},
     memMb : {Est(16384)}, isEmail : {TRUE}]

(***************************************************************************)
(* State.                                                                  *)
(***************************************************************************)
VARIABLES
    pc,          \* where the driver process is; "idle": no driver is running
    cmd,         \* the command line of the running driver
    env,         \* what the collaborators answer to the running driver
    runOptions,  \* main: runOptions
    marker,      \* the filesystem entry at <runDir>/workflow.exitcode.txt
    retval,      \* main: retval
    exc,         \* an exception is propagating out of the try block
    exitStatus,  \* exit status of the driver process that ended last
    engineCall,  \* keyword arguments of the wflow.run call, once made
    runs,        \* number of driver processes that have ended
    writes,      \* times the running driver has written the marker
    removed,     \* the running driver has unlinked a stale marker
    cur,         \* summary of the running driver
    hist,        \* summaries of the last two drivers that ended
    lastPrep,    \* how the last driver to reach the marker check went on
    result,      \* SpecResolver: what get_run_options did
    gpc,         \* SpecGen: where makeRunScript is
    gin,         \* SpecGen: arguments of makeRunScript and the paths' state
    pickleFile,  \* SpecGen: the file <scriptFile>.config.pickle
    scriptFile   \* SpecGen: the file scriptFile

driverVars ==
    <<pc, cmd, env, runOptions, marker, retval, exc, exitStatus, engineCall,
      runs, writes, removed, cur, hist, lastPrep>>
genVars == <<gpc, gin, pickleFile, scriptFile>>
vars == <<driverVars, result, genVars>>

Absent == [kind |-> "absent", text |-> <<>>]
\* an entry that is not a plain file, such as a directory
NotAFile == [kind |-> "dir", text |-> <<>>]
PlainFile(text) == [kind |-> "file", text |-> text]

\* exists answering only for entries that are not plain files
exists_dirsOnly(entry) == entry.kind = "dir"

\* os.path.exists, os.path.isfile
exists(entry) == entry.kind # "absent"
isfile(entry) == entry.kind = "file"

NoCall ==
    [called |-> FALSE, mode |-> None, nCores |-> None, memMb |-> None,
     mailTo |-> None, isContinue |-> "", isForceContinue |-> FALSE,
     isDryRun |-> FALSE, isQuiet |-> FALSE, schedulerArgList |-> <<>>,
     resetTasks |-> <<>>]

NoSummary ==
    [stage |-> "none", exit |-> 0, ret |-> -1, writes |-> 0,
     removed |-> FALSE, before |-> "absent", after |-> Absent]

NoPrep == [how |-> "none", exit |-> 0]

NoCur == [stage |-> "none", ret |-> -1, before |-> "absent"]

(***************************************************************************)
(* The generated driver: runScript3, main.  One driver process at a time   *)
(* runs against the run directory; pc follows it through main.             *)
(***************************************************************************)
DriverInit ==
    /\ pc = "idle"
    /\ cmd = NoCmd
    /\ env = NoEnv
    /\ runOptions = NoOptions
    /\ marker \in {Absent, NotAFile}
    /\ retval = 0
    /\ exc = FALSE
    /\ exitStatus = 0
    /\ engineCall = NoCall
    /\ runs = 0
    /\ writes = 0
    /\ removed = FALSE
    /\ cur = NoCur
    /\ hist = <<NoSummary, NoSummary>>
    /\ lastPrep = NoPrep

\* The driver process ends with the given exit status: sys.exit(status), or
\* an uncaught exception, after which the interpreter exits with status 1.
ProcessEnd(status, stage) ==
    /\ pc' = "idle"
    /\ exitStatus' = status
    /\ runs' = runs + 1
    /\ hist' = <<hist[2],
                 [stage |-> stage, exit |-> status, ret |-> cur.ret,
                  writes |-> writes, removed |-> removed,
                  before |-> cur.before, after |-> marker']>>
    /\ cmd' = NoCmd
    /\ env' = NoEnv
    /\ runOptions' = NoOptions
    /\ retval' = 0
    /\ exc' = FALSE
    /\ engineCall' = NoCall
    /\ writes' = 0
    /\ removed' = FALSE
    /\ cur' = NoCur

\* the script is launched with a command line
Start ==
    /\ pc = "idle"
    /\ runs < MaxRuns
    /\ \E c \in DriverCmds, e \in DriverEnvs :
          /\ cmd' = c
          /\ env' = e
    /\ pc' = "resolving"
    /\ cur' = [stage |-> "resolving", ret |-> -1, before |-> marker.kind]
    /\ UNCHANGED <<runOptions, marker, retval, exc, exitStatus, engineCall,
                   runs, writes, removed, hist, lastPrep, result, genVars>>

\* line 222: runOptions=get_run_options(workflowClassName)
Resolve ==
    /\ pc = "resolving"
    /\ UNCHANGED marker
    /\ LET r == get_run_options(cmd, env)
       IN  IF r.kind = "options"
           THEN /\ runOptions' = r.options
                /\ pc' = "loading"
                /\ UNCHANGED <<cmd, env, retval, exc, exitStatus, engineCall,
                               runs, writes, removed, cur, hist>>
           ELSE ProcessEnd(r.status,
                           IF r.kind = "exit" THEN "usage" ELSE "valueerror")
    /\ UNCHANGED <<lastPrep, result, genVars>>

\* configureUtil.getConfigWithPrimaryOptions: the options of the primary
\* section and all sections, or an error when the pickle cannot be read or
\* lacks the primary section
getConfigWithPrimaryOptions(readable) ==
    IF readable THEN [ok |-> TRUE] ELSE [ok |-> FALSE]

\* line 223
LoadConfig ==
    /\ pc = "loading"
    /\ UNCHANGED marker
    /\ \E readable \in BOOLEAN :
          IF getConfigWithPrimaryOptions(readable).ok
          THEN /\ pc' = "preparing"
               /\ UNCHANGED <<cmd, env, runOptions, retval, exc, exitStatus,
                              engineCall, runs, writes, removed, cur, hist>>
          ELSE ProcessEnd(1, "load")
    /\ UNCHANGED <<lastPrep, result, genVars>>

\* lines 230-234: the exit path should only exist once the workflow completes
Prepare ==
    /\ pc = "preparing"
    /\ IF exists(marker)
       THEN IF ~isfile(marker)
            THEN /\ UNCHANGED marker
                 /\ ProcessEnd(1, "notfile")
                 /\ lastPrep' = [how |-> "stopped", exit |-> 1]
            ELSE /\ marker' = Absent
                 /\ removed' = TRUE
                 /\ pc' = "constructing"
                 /\ lastPrep' = [how |-> "stopped", exit |-> 1]
                 /\ UNCHANGED <<cmd, env, runOptions, retval, exc, exitStatus,
                                engineCall, runs, writes, cur, hist>>
       ELSE /\ pc' = "constructing"
            /\ lastPrep' = [how |-> "stopped", exit |-> 1]
            /\ UNCHANGED <<marker, cmd, env, runOptions, retval, exc,
                           exitStatus, engineCall, runs, writes, removed, cur,
                           hist>>
    /\ UNCHANGED <<result, genVars>>

\* lines 236-238: wflow = workflowClassName(flowOptions); retval=1
Construct ==
    /\ pc = "constructing"
    /\ UNCHANGED marker
    /\ \E ok \in BOOLEAN :
          IF ok
          THEN /\ retval' = 1
               /\ pc' = "invoking"
               /\ UNCHANGED <<cmd, env, runOptions, exc, exitStatus,
                              engineCall, runs, writes, removed, cur, hist>>
          ELSE ProcessEnd(1, "ctor")
    /\ UNCHANGED <<lastPrep, result, genVars>>

\* runKeywords forcing continuation only on a dry run
runKeywords_noForce(options) ==
    [called |-> TRUE,
     mode |-> options.mode,
     nCores |-> options.jobs,
     memMb |-> options.memMb,
     mailTo |-> options.mailTo,
     isContinue |-> "Auto",
     isForceContinue |-> options.isDryRun,
     isDryRun |-> options.isDryRun,
     isQuiet |-> options.isQuiet,
     schedulerArgList |-> options.schedulerArgList,
     resetTasks |-> options.resetTasks]

\* lines 240-250: the keyword arguments of wflow.run
runKeywords(options) ==
    [called |-> TRUE,
     mode |-> options.mode,
     nCores |-> options.jobs,
     memMb |-> options.memMb,
     mailTo |-> options.mailTo,
     isContinue |-> "Auto",
     isForceContinue |-> TRUE,
     isDryRun |-> options.isDryRun,
     isQuiet |-> options.isQuiet,
     schedulerArgList |-> options.schedulerArgList,
     resetTasks |-> options.resetTasks]

\* lines 239-253: inside try, the arguments are evaluated, among them
\* wflow.getSuccessMessage(), and wflow.run is entered
Invoke ==
    /\ pc = "invoking"
    /\ lastPrep' = [how |-> "tried", exit |-> 1]
    /\ \E msgOk \in BOOLEAN :
          IF msgOk
          THEN /\ engineCall' = runKeywords(runOptions)
               /\ pc' = "running"
               /\ UNCHANGED <<exc, cur>>
          ELSE /\ exc' = TRUE
               /\ cur' = [cur EXCEPT !.stage = "msg"]
               /\ pc' = "finally"
               /\ UNCHANGED engineCall
    /\ UNCHANGED <<cmd, env, runOptions, marker, retval, exitStatus, runs,
                   writes, removed, hist, result, genVars>>

\* wflow.run returns an exit code, which line 240 assigns to retval
EngineReturn ==
    /\ pc = "running"
    /\ \E r \in 0..MaxRet :
          /\ retval' = r
          /\ cur' = [cur EXCEPT !.stage = "return", !.ret = r]
    /\ pc' = "finally"
    /\ UNCHANGED <<cmd, env, runOptions, marker, exc, exitStatus, engineCall,
                   runs, writes, removed, hist, lastPrep, result, genVars>>

\* wflow.run raises
EngineRaise ==
    /\ pc = "running"
    /\ exc' = TRUE
    /\ cur' = [cur EXCEPT !.stage = "raise"]
    /\ pc' = "finally"
    /\ UNCHANGED <<cmd, env, runOptions, marker, retval, exitStatus,
                   engineCall, runs, writes, removed, hist, lastPrep, result,
                   genVars>>

\* writeExitCode writing the initial retval whatever the engine returned
writeExitCode_one(code) == [kind |-> "file", text |-> FormatExitCode(1)]

\* the text open(exitpath,"w") followed by write("%i\n" % (retval)) leaves
writeExitCode(code) == PlainFile(FormatExitCode(code))

\* lines 254-257: the finally block
Finally ==
    /\ pc = "finally"
    /\ marker' = writeExitCode(retval)
    /\ writes' = writes + 1
    /\ pc' = "exiting"
    /\ UNCHANGED <<cmd, env, runOptions, retval, exc, exitStatus, engineCall,
                   runs, removed, cur, hist, lastPrep, result, genVars>>

\* exitStatusOf without the final sys.exit(retval)
exitStatusOf_noExit(raised, code) == IF raised THEN 1 ELSE 0

\* the status the process ends with after the finally block: that of
\* sys.exit(retval), or 1 when the exception leaves main uncaught
exitStatusOf(raised, code) == IF raised THEN 1 ELSE code

\* line 259, sys.exit(retval), or the exception leaving main
Exit ==
    /\ pc = "exiting"
    /\ UNCHANGED marker
    /\ ProcessEnd(exitStatusOf(exc, retval), cur.stage)
    /\ lastPrep' = [how |-> "tried", exit |-> exitStatusOf(exc, retval)]
    /\ UNCHANGED <<result, genVars>>

DriverNext ==
    \/ Start
    \/ Resolve
    \/ LoadConfig
    \/ Prepare
    \/ Construct
    \/ Invoke
    \/ EngineReturn
    \/ EngineRaise
    \/ Finally
    \/ Exit

(***************************************************************************)
(* get_run_options on its own: every command line and every answer of the  *)
(* collaborators, one call each.                                           *)
(***************************************************************************)
NoGin ==
    [dirExists |-> FALSE, moduleIsFile |-> FALSE, moduleName |-> <<>>,
     pythonBin |-> None, umask |-> 0,
     prePickle |-> [exists |-> FALSE, content |-> "", mode |-> 0],
     preScript |-> [exists |-> FALSE, content |-> "", mode |-> 0,
                    pythonBin |-> <<>>, moduleName |-> <<>>]]

GenIdle ==
    /\ gpc = "none"
    /\ gin = NoGin
    /\ pickleFile = NoGin.prePickle
    /\ scriptFile = NoGin.preScript

ResolverInit ==
    /\ pc = "resolver"
    /\ cmd \in Cmds
    /\ env \in Envs
    /\ result = NoResult
    /\ runOptions = NoOptions
    /\ marker = Absent
    /\ retval = 0
    /\ exc = FALSE
    /\ exitStatus = 0
    /\ engineCall = NoCall
    /\ runs = 0
    /\ writes = 0
    /\ removed = FALSE
    /\ cur = NoCur
    /\ hist = <<NoSummary, NoSummary>>
    /\ lastPrep = NoPrep
    /\ GenIdle

\* parse_args has returned cmd; lines 160-214 run to their end
CallGetRunOptions ==
    /\ pc = "resolver"
    /\ result = NoResult
    /\ result' = get_run_options(cmd, env)
    /\ UNCHANGED <<driverVars, genVars>>

ResolverNext == CallGetRunOptions

SpecResolver == ResolverInit /\ [][ResolverNext]_vars

(***************************************************************************)
(* makeRunScript.                                                          *)
(***************************************************************************)
\* mode 0744
scriptMode_0744 == (7 * 64) + (4 * 8) + 4

\* os.chmod(scriptFile,0755): 0755 is octal
scriptMode == 493
\* mode bits open(scriptFile,"w") asks for when it creates the file: 0666
createMode == 438

\* permission bit of a mode: the octal digit of who ("owner", "group" or
\* "other") has the bit of what ("r", "w" or "x")
HasPerm(mode, who, what) ==
    LET shift == CASE who = "owner" -> 64 [] who = "group" -> 8 [] OTHER -> 1
        bit == CASE what = "r" -> 4 [] what = "w" -> 2 [] OTHER -> 1
    IN  ((mode \div (shift * bit)) % 2) = 1

RECURSIVE AndNot(_, _, _)
\* a & ~b on the k low bits
AndNot(a, b, k) ==
    IF k = 0 THEN 0
    ELSE 2 * AndNot(a \div 2, b \div 2, k - 1)
         + (IF a % 2 = 1 /\ b % 2 = 0 THEN 1 ELSE 0)

pyExt == <<".", "p", "y">>
endswith(str, suffix) ==
    /\ Len(str) >= Len(suffix)
    /\ SubSeq(str, Len(str) - Len(suffix) + 1, Len(str)) = suffix

\* lines 51-54
workflowModuleNameOf(base) ==
    IF endswith(base, pyExt) THEN SubSeq(base, 1, Len(base) - Len(pyExt))
    ELSE base

\* lines 62-63
pythonBinOf(pythonBin) ==
    IF IsNone(pythonBin)
    THEN <<"/usr/bin/env python2">>
    ELSE pythonBin.s

\* preconditions without the assertion on workflowModulePath
preconditions_dirOnly(g) == g.dirExists

\* lines 46-47: the two assertions
preconditions(g) == g.dirExists /\ g.moduleIsFile

\* configureUtil.pickleConfigSections: writes the sections to the file
pickleConfigSections(old) ==
    [exists |-> TRUE, content |-> "configSections",
     mode |-> IF old.exists THEN old.mode ELSE 420]

ModuleNames == {<<"w", "f", ".", "p", "y">>, <<"w", "f">>, <<"p", "y">>}
PythonBins == {None, Str(<<"/opt/python">>)}
\* umask 022 and 077
Umasks == {18, 63}
OldPickles ==
    {[exists |-> FALSE, content |-> "", mode |-> 0],
     [exists |-> TRUE, content |-> "old", mode |-> 420]}
\* modes 0644 and 0700
OldScripts ==
    {[exists |-> FALSE, content |-> "", mode |-> 0,
      pythonBin |-> <<>>, moduleName |-> <<>>],
     [exists |-> TRUE, content |-> "old", mode |-> 420,
      pythonBin |-> <<>>, moduleName |-> <<>>],
     [exists |-> TRUE, content |-> "old", mode |-> 448,
      pythonBin |-> <<>>, moduleName |-> <<>>]}

GenInit ==
    /\ gpc = "start"
    /\ gin \in [dirExists : BOOLEAN, moduleIsFile : BOOLEAN,
                moduleName : ModuleNames, pythonBin : PythonBins,
                umask : Umasks, prePickle : OldPickles,
                preScript : OldScripts]
    \* nothing is in a directory that does not exist
    /\ gin.dirExists \/ (~gin.prePickle.exists /\ ~gin.preScript.exists)
    /\ pickleFile = gin.prePickle
    /\ scriptFile = gin.preScript
    /\ pc = "gen"
    /\ cmd = NoCmd
    /\ env = NoEnv
    /\ result = NoResult
    /\ runOptions = NoOptions
    /\ marker = Absent
    /\ retval = 0
    /\ exc = FALSE
    /\ exitStatus = 0
    /\ engineCall = NoCall
    /\ runs = 0
    /\ writes = 0
    /\ removed = FALSE
    /\ cur = NoCur
    /\ hist = <<NoSummary, NoSummary>>
    /\ lastPrep = NoPrep

\* lines 46-47
GenCheck ==
    /\ gpc = "start"
    /\ gpc' = IF preconditions(gin) THEN "pickle" ELSE "failed"
    /\ UNCHANGED <<gin, pickleFile, scriptFile, driverVars, result>>

\* lines 49-58
GenPickle ==
    /\ gpc = "pickle"
    /\ pickleFile' = pickleConfigSections(pickleFile)
    /\ gpc' = "open"
    /\ UNCHANGED <<gin, scriptFile, driverVars, result>>

\* line 60: sfp=open(scriptFile,"w") creates or truncates the file
GenOpen ==
    /\ gpc = "open"
    /\ scriptFile' =
          [exists |-> TRUE, content |-> "",
           mode |-> IF scriptFile.exists THEN scriptFile.mode
                    ELSE AndNot(createMode, gin.umask, 9),
           pythonBin |-> <<>>, moduleName |-> <<>>]
    /\ gpc' = "write"
    /\ UNCHANGED <<gin, pickleFile, driverVars, result>>

\* lines 62-75: the three templates and the call of main
GenWrite ==
    /\ gpc = "write"
    /\ scriptFile' =
          [scriptFile EXCEPT
              !.content = "runScript1 runScript2 runScript3 main",
              !.pythonBin = pythonBinOf(gin.pythonBin),
              !.moduleName = workflowModuleNameOf(gin.moduleName)]
    /\ gpc' = "chmod"
    /\ UNCHANGED <<gin, pickleFile, driverVars, result>>

\* line 76
GenChmod ==
    /\ gpc = "chmod"
    /\ scriptFile' = [scriptFile EXCEPT !.mode = scriptMode]
    /\ gpc' = "done"
    /\ UNCHANGED <<gin, pickleFile, driverVars, result>>

GenNext ==
    \/ GenCheck
    \/ GenPickle
    \/ GenOpen
    \/ GenWrite
    \/ GenChmod

SpecGen == GenInit /\ [][GenNext]_vars

(***************************************************************************)
(* The driver's specification.                                             *)
(***************************************************************************)
Init ==
    /\ DriverInit
    /\ result = NoResult
    /\ GenIdle

Next == DriverNext

Spec == Init /\ [][Next]_vars

(***************************************************************************)
(* Properties.                                                             *)
(***************************************************************************)
\* the marker is a plain file whose one line reads as the number code
MarkerHolds(code) ==
    /\ isfile(marker)
    /\ Len(marker.text) >= 2
    /\ \A i \in 1..Len(marker.text) :
          (marker.text[i] = "\n") <=> (i = Len(marker.text))
    /\ ParseInt(marker.text).ok
    /\ ParseInt(marker.text).v = code

\* the last driver that ended
last == hist[2]
\* the one before it
prev == hist[1]

\* ways a driver ends after it has entered Invoking, that is after line 236
\* has started to construct the workflow instance
InvokingEnds == {"ctor", "msg", "raise", "return"}

\* C1: a driver that entered Invoking (constructing the workflow instance,
\* then the run call) has, when its process has ended, written the marker
\* exactly once, and the marker holds the exit code of that attempt.
C1_MarkerWrittenOnce ==
    (pc = "idle" /\ last.stage \in InvokingEnds)
        => (last.writes = 1 /\ MarkerHolds(last.exit))

C3_MarkerIffTerminated ==
    pc = "idle"
        => /\ isfile(marker) <=> runs > 0
           /\ isfile(marker) => MarkerHolds(exitStatus)

\* C3 amended: when no driver runs, a plain-file marker exists exactly if
\* some driver reached the stale-marker check and the last one to do so went
\* on into the try block around the engine call; it then holds the exit code
\* of that driver.  A driver that ends before the check (usage error,
\* ValueError, configuration that cannot be loaded) leaves the path as it
\* found it.
C3_MarkerIffLastAttemptTried ==
    /\ pc = "idle"
        => /\ isfile(marker) <=> lastPrep.how = "tried"
           /\ isfile(marker) => MarkerHolds(lastPrep.exit)
    /\ (pc = "idle" /\ last.stage \in {"usage", "valueerror", "load"})
        => (marker.kind = last.before /\ last.writes = 0 /\ ~last.removed)

\* a usage error (exit status 2) has left the marker of an earlier attempt,
\* which holds another code
C3_Witness ==
    /\ pc = "idle"
    /\ last.stage = "usage"
    /\ exitStatus = 2
    /\ isfile(marker)
    /\ MarkerHolds(lastPrep.exit)
    /\ lastPrep.exit # 2

\* C4: a driver that reached the engine call exits with the code it has just
\* written to the marker: the value run returned, or 1 when run raised.
C4_ExitStatusEqualsMarker ==
    /\ (pc = "idle" /\ last.stage \in {"return", "raise"})
        => /\ MarkerHolds(exitStatus)
           /\ last.stage = "return" => exitStatus = last.ret
           /\ last.stage = "raise" => exitStatus = 1
    /\ pc = "exiting" => MarkerHolds(retval)

\* the engine returned a code other than 0 and 1, now in the marker and the
\* exit status
C4_Witness ==
    /\ pc = "idle"
    /\ last.stage = "return"
    /\ last.ret = 2
    /\ exitStatus = 2
    /\ MarkerHolds(2)

\* a string of decimal digits that denotes a positive integer
IsPosIntArg(v) ==
    /\ v.t = "str"
    /\ v.s # <<>>
    /\ \A i \in 1..Len(v.s) : v.s[i] \in DigitSet
    /\ DigitsValue(v.s, 0) > 0

BadCount(v) == ~IsNone(v) /\ ~PyEq(v, unlimited) /\ ~IsPosIntArg(v)

\* the validation failures of the resolver
InvalidInput ==
    \/ cmd.nargs # 0
    \/ IsNone(cmd.mode)
    \/ ~(PyEq(cmd.mode, local) \/ PyEq(cmd.mode, sge))
    \/ BadCount(cmd.jobs)
    \/ BadCount(cmd.memGb)
    \/ /\ PyEq(cmd.mode, local)
       /\ \/ IsNone(cmd.jobs) /\ ~env.cores.ok
          \/ IsNone(cmd.memGb) /\ ~env.memMb.ok

\* C5: every validation failure of get_run_options ends the driver with
\* exit status 2 and no options are returned.
C5_InvalidExits2 ==
    (result # NoResult /\ InvalidInput)
        => (result.kind = "exit" /\ result.status = 2)

ExpectedJobs ==
    IF ~IsNone(cmd.jobs)
    THEN IF PyEq(cmd.jobs, unlimited) THEN unlimited
         ELSE Int_(DigitsValue(cmd.jobs.s, 0))
    ELSE IF PyEq(cmd.mode, sge) THEN Int_(env.sgeDefaultCores)
    ELSE Int_(env.cores.v)

ExpectedMemMb ==
    IF ~IsNone(cmd.memGb)
    THEN IF PyEq(cmd.memGb, unlimited) THEN unlimited
         ELSE Int_(1024 * DigitsValue(cmd.memGb.s, 0))
    ELSE IF PyEq(cmd.mode, sge) THEN unlimited
    ELSE Int_(env.memMb.v)

\* C6: on every valid input get_run_options returns options whose job count
\* is the -j value, else the sge default in sge mode, else the estimated core
\* count, and whose memory budget is 1024 times the -g value, 'unlimited' for
\* -g unlimited, else 'unlimited' in sge mode, else the estimated megabytes.
C6_ResolvedJobsAndMemory ==
    (result # NoResult /\ ~InvalidInput)
        => /\ result.kind = "options"
           /\ PyEq(result.options.jobs, ExpectedJobs)
           /\ PyEq(result.options.memMb, ExpectedMemMb)

\* the three scenarios of the resolver are all in the input sets; this is
\* the one with a -g value: 4 gigabytes become 4096 megabytes
C6_Witness ==
    /\ result.kind = "options"
    /\ PyEq(cmd.mode, local)
    /\ IsNone(cmd.jobs)
    /\ env.cores = Est(8)
    /\ PyEq(result.options.jobs, Int_(8))
    /\ PyEq(cmd.memGb, Str(<<"4">>))
    /\ PyEq(result.options.memMb, Int_(4096))

\* C7: two drivers in a row whose engine returns the same code each remove
\* the marker they find and write it once, and leave it with the same value;
\* and every engine call has isContinue="Auto" and isForceContinue=True.
C7_RerunIdempotent ==
    /\ (pc = "idle" /\ prev.stage = "return" /\ last.stage = "return"
            /\ prev.ret = last.ret)
        => /\ prev.writes = 1
           /\ last.writes = 1
           /\ last.before = "file"
           /\ last.removed
           /\ prev.before = "file" => prev.removed
           /\ prev.after = last.after
           /\ last.after = marker
           /\ MarkerHolds(last.ret)
    /\ engineCall.called
        => (engineCall.isContinue = "Auto" /\ engineCall.isForceContinue)

\* a completed run directory, then two drivers in a row with the same code
C7_Witness ==
    /\ pc = "idle"
    /\ prev.stage = "return"
    /\ last.stage = "return"
    /\ prev.ret = last.ret
    /\ prev.before = "file"
    /\ prev.removed
    /\ last.removed
    /\ prev.after = marker

\* files as makeRunScript found them
GenUntouched == pickleFile = gin.prePickle /\ scriptFile = gin.preScript

\* C8: when the parent directory of scriptFile does not exist or
\* workflowModulePath is not a file, makeRunScript fails and neither the
\* pickle file nor the script file is created or changed.
C8_FailsBeforeWriting ==
    /\ (gpc # "none" /\ (~gin.dirExists \/ ~gin.moduleIsFile))
        => (gpc \in {"start", "failed"} /\ GenUntouched)
    /\ gpc = "failed" => (~gin.dirExists \/ ~gin.moduleIsFile)

\* the call failed on the module path, next to files of an earlier call
C8_Witness ==
    /\ gpc = "failed"
    /\ gin.dirExists
    /\ ~gin.moduleIsFile
    /\ scriptFile.exists
    /\ pickleFile.exists

\* C9: the reset task list that get_run_options returns and main passes to
\* the engine is ["makeHyGenDir"] with --rescore and empty without it.
C9_ResetTasks ==
    /\ pc \in {"loading", "preparing", "constructing", "invoking", "running"}
        => runOptions.resetTasks
              = (IF cmd.isRescore THEN <<"makeHyGenDir">> ELSE <<>>)
    /\ engineCall.called
        => engineCall.resetTasks
              = (IF cmd.isRescore THEN <<"makeHyGenDir">> ELSE <<>>)

\* the engine is called after --rescore
C9_Witness ==
    /\ pc = "running"
    /\ cmd.isRescore
    /\ engineCall.called
    /\ engineCall.resetTasks = <<"makeHyGenDir">>

\* C10 as stated: the generated script is executable by its owner and, for
\* group and other, readable, not writable and not executable.
C10_GroupOtherNotExecutable ==
    gpc = "done"
        => /\ HasPerm(scriptFile.mode, "owner", "x")
           /\ \A who \in {"group", "other"} :
                 /\ HasPerm(scriptFile.mode, who, "r")
                 /\ ~HasPerm(scriptFile.mode, who, "w")
                 /\ ~HasPerm(scriptFile.mode, who, "x")

\* C10 amended: the generated script has mode 0755: readable, writable and
\* executable by its owner and, for group and other, readable, not writable
\* and executable.
C10_Mode0755 ==
    gpc = "done"
        => /\ scriptFile.exists
           /\ \A what \in {"r", "w", "x"} : HasPerm(scriptFile.mode, "owner", what)
           /\ \A who \in {"group", "other"} :
                 /\ HasPerm(scriptFile.mode, who, "r")
                 /\ ~HasPerm(scriptFile.mode, who, "w")
                 /\ HasPerm(scriptFile.mode, who, "x")

\* a script that was there with mode 0700 has been generated again
C10_Witness ==
    /\ gpc = "done"
    /\ gin.preScript.exists
    /\ gin.preScript.mode = 448
    /\ HasPerm(scriptFile.mode, "other", "x")

====
